---------------------------- MODULE Spec2Model ----------------------------
(***************************************************************************)
(* A model of pyglossary's Glossary (src/pyglossary/glossary.py): the      *)
(* dual-mode entry pipeline (materialized list _data / attached readers    *)
(* _readers), the lazy iterator _iter, sortWords, write and convert.       *)
(*                                                                         *)
(* An entry is the raw tuple <<word, defi>>; Python's None is <<>>.        *)
(* A reader is a forward-only stream over the items of the file it opened. *)
(***************************************************************************)
EXTENDS Integers, Sequences, FiniteSets, TLC

VARIABLES
    data,           \* self._data: the materialized list of raw entries
    readers,        \* self._readers: ids of the attached readers, in order
    rd,             \* the Reader objects of the session: id -> [items, pos, closed]
    it,             \* self._iter: the current iterator (a suspended generator)
    entryFilters,   \* self._entryFilters: the filter chain
    sortKey,        \* self._sortKey
    sortCacheSize,  \* self._sortCacheSize
    pref,           \* self.ui.pref: the options the filter chain is built from
    info,           \* self._info: the ordered mapping of <<key, value>> pairs
    defaultDefiFormat,  \* self._defaultDefiFormat
    last            \* what the last call did: its result and the calls it made

vars == <<data, readers, rd, it, entryFilters, sortKey, sortCacheSize, pref, info,
          defaultDefiFormat, last>>

----------------------------------------------------------------------------
(* Bounds of the model *)

\* Reader objects alive in one glossary session (between two clear())
MaxReaders == 2
\* addEntry is enabled while _data is shorter than this
MaxData == 1

----------------------------------------------------------------------------
(* Entries, words and sort keys *)

None == <<>>

E(w, d) == <<w, d>>

Truthy(x) == x # None

\* Python's str.strip() on the words of the model
StripWord(w) ==
    CASE w = " b" -> "b"
      [] w = "  " -> ""
      [] OTHER -> w

\* Python's str.lower() on the words of the model
LowerWord(w) ==
    CASE w = "B" -> "b"
      [] OTHER -> w

\* Python's ordering of str (code point order) on the words of the model,
\* as the rank of the word
CodeRank(w) ==
    CASE w = "" -> 0
      [] w = "  " -> 1
      [] w = " b" -> 2
      [] w = "B" -> 3
      [] w = "a" -> 4
      [] w = "b" -> 5

\* The key functions a caller or a plugin passes: "raw" compares the words as
\* they are, "lower" compares them lower-cased; "None" is the default key
KeyNames == {"None", "raw", "lower"}

KeyVal(k, w) ==
    CASE k = "raw" -> CodeRank(w)
      [] OTHER -> CodeRank(LowerWord(w))

\* Entry.getRawEntrySortKey(key) / Entry.getEntrySortKey(key): the key of the
\* entry's word
EntrySortKey(k, e) == KeyVal(k, e[1])

----------------------------------------------------------------------------
(* list.sort(key=...): a stable sort *)

\* The insertion placing an entry after the entries of equal key
RECURSIVE InsertSortedAfterEqual(_, _, _)
InsertSortedAfterEqual(s, e, k) ==
    IF s = <<>> THEN <<e>>
    ELSE IF EntrySortKey(k, e) < EntrySortKey(k, Head(s))
         THEN <<e>> \o s
         ELSE <<Head(s)>> \o InsertSortedAfterEqual(Tail(s), e, k)

RECURSIVE InsertSorted(_, _, _)
InsertSorted(s, e, k) ==
    IF s = <<>> THEN <<e>>
    ELSE IF EntrySortKey(k, e) <= EntrySortKey(k, Head(s))
         THEN <<e>> \o s
         ELSE <<Head(s)>> \o InsertSorted(Tail(s), e, k)

\* The elements are inserted from the last to the first, each before the first
\* element whose key is not smaller: equal keys keep their order
RECURSIVE SortByKey(_, _)
SortByKey(s, k) ==
    IF s = <<>> THEN <<>>
    ELSE InsertSorted(SortByKey(Tail(s), k), Head(s), k)

----------------------------------------------------------------------------
(* The filter chain *)

\* updateEntryFilters() appending the lowercase filter before the encoding fix
UpdateEntryFiltersLowerFirst(p) ==
    <<"Strip", "NonEmptyWord">>
    \o (IF p.skipResources THEN <<"SkipData">> ELSE <<>>)
    \o (IF p.lower THEN <<"LowerWord">> ELSE <<>>)
    \o (IF p.utf8Check THEN <<"FixUnicode">> ELSE <<>>)
    \o <<"Lang", "Clean", "NonEmptyWord", "NonEmptyDefi">>

\* updateEntryFilters(): the chain built from the preferences p
UpdateEntryFilters(p) ==
    <<"Strip", "NonEmptyWord">>
    \o (IF p.skipResources THEN <<"SkipData">> ELSE <<>>)
    \o (IF p.utf8Check THEN <<"FixUnicode">> ELSE <<>>)
    \o (IF p.lower THEN <<"LowerWord">> ELSE <<>>)
    \o <<"Lang", "Clean", "NonEmptyWord", "NonEmptyDefi">>

\* entryFilter.run(entry): the entry rewritten, or None to discard it.
\* The entries of the model are word entries (no binary resources) of valid
\* ASCII text, which SkipData, FixUnicode, Lang and Clean pass as they are.
RunFilter(f, e) ==
    CASE f = "Strip" -> E(StripWord(e[1]), e[2])
      [] f = "NonEmptyWord" -> IF e[1] = "" THEN None ELSE e
      [] f = "NonEmptyDefi" -> IF e[2] = "" THEN None ELSE e
      [] f = "LowerWord" -> E(LowerWord(e[1]), e[2])
      [] OTHER -> e

\* The inner loop without its break: a falsy result is passed over and the
\* next filter runs on the entry
RECURSIVE RunChainSkipping(_, _)
RunChainSkipping(chain, e) ==
    IF chain = <<>> THEN e
    ELSE LET newEntry == RunFilter(Head(chain), e)
         IN  RunChainSkipping(Tail(chain), IF Truthy(newEntry) THEN newEntry ELSE e)

\* The inner loop of _applyEntryFiltersGen on one truthy entry: the filters
\* run in order; the first falsy result ends the loop and discards the entry
RECURSIVE RunChain(_, _)
RunChain(chain, e) ==
    IF chain = <<>> THEN e
    ELSE LET newEntry == RunFilter(Head(chain), e)
         IN  IF ~Truthy(newEntry) THEN None
             ELSE RunChain(Tail(chain), newEntry)

\* The filters the inner loop runs on a truthy entry: it breaks at the first
\* falsy result
RECURSIVE FiltersRun(_, _)
FiltersRun(chain, e) ==
    IF chain = <<>> THEN 0
    ELSE IF ~Truthy(RunFilter(Head(chain), e)) THEN 1
         ELSE 1 + FiltersRun(Tail(chain), RunFilter(Head(chain), e))

\* One upstream item through the chain: None when it is discarded
ApplyEntryFilters(chain, x) ==
    IF ~Truthy(x) THEN None ELSE RunChain(chain, x)

\* The chain over a whole sequence of upstream items
RECURSIVE FilterSeq(_, _)
FilterSeq(chain, s) ==
    IF s = <<>> THEN <<>>
    ELSE LET y == ApplyEntryFilters(chain, Head(s))
         IN  (IF Truthy(y) THEN <<y>> ELSE <<>>) \o FilterSeq(chain, Tail(s))

----------------------------------------------------------------------------
(* The streaming sort-merge of sort_stream.hsortStreamList *)

\* A stream cut into runs of up to c entries
RECURSIVE Chunks(_, _)
Chunks(s, c) ==
    IF s = <<>> THEN <<>>
    ELSE IF Len(s) <= c THEN <<s>>
    ELSE <<SubSeq(s, 1, c)>> \o Chunks(SubSeq(s, c + 1, Len(s)), c)

\* The sorted runs of one stream
RECURSIVE SortedRuns(_, _)
SortedRuns(chunks, k) ==
    IF chunks = <<>> THEN <<>>
    ELSE <<SortByKey(Head(chunks), k)>> \o SortedRuns(Tail(chunks), k)

\* The sorted runs of all streams, in arrival order
RECURSIVE AllRuns(_, _, _)
AllRuns(streams, c, k) ==
    IF streams = <<>> THEN <<>>
    ELSE SortedRuns(Chunks(Head(streams), c), k) \o AllRuns(Tail(streams), c, k)

\* The run whose head is emitted next: the lowest key, the earliest run on a tie
MinRun(runs, k) ==
    CHOOSE i \in DOMAIN runs :
        /\ runs[i] # <<>>
        /\ \A j \in DOMAIN runs :
              runs[j] # <<>> =>
                 \/ EntrySortKey(k, runs[i][1]) < EntrySortKey(k, runs[j][1])
                 \/ EntrySortKey(k, runs[i][1]) = EntrySortKey(k, runs[j][1]) /\ i <= j

\* The k-way merge of the runs
RECURSIVE MergeRuns(_, _)
MergeRuns(runs, k) ==
    IF \A i \in DOMAIN runs : runs[i] = <<>> THEN <<>>
    ELSE LET i == MinRun(runs, k)
         IN  <<runs[i][1]>> \o MergeRuns([runs EXCEPT ![i] = Tail(@)], k)

HSortStreamList(streams, c, k) == MergeRuns(AllRuns(streams, c, k), k)

----------------------------------------------------------------------------
(* The plugin registry and the input files: the environment of the glossary *)

\* The registered formats in registry order. Reader: the plugin has a Reader
\* class; read / write: it has a read / write function; sortKey: its
\* sortKey attribute ("None": it has none); readOptions / writeOptions: the
\* option keys it lists.  Csv and Xdxf both list the extension ".csv"
Plugins == <<
    [name |-> "Tabfile", ext |-> {".txt"}, Reader |-> TRUE, read |-> FALSE,
     write |-> TRUE, sortOnWrite |-> "DEFAULT_NO", sortKey |-> "None",
     readOptions |-> {"encoding"}, writeOptions |-> {"encoding", "resources"}],
    [name |-> "Stardict", ext |-> {".ifo"}, Reader |-> TRUE, read |-> FALSE,
     write |-> TRUE, sortOnWrite |-> "ALWAYS", sortKey |-> "raw",
     readOptions |-> {}, writeOptions |-> {"resources"}],
    [name |-> "Csv", ext |-> {".csv"}, Reader |-> FALSE, read |-> TRUE,
     write |-> TRUE, sortOnWrite |-> "DEFAULT_YES", sortKey |-> "None",
     readOptions |-> {"encoding"}, writeOptions |-> {"encoding"}],
    [name |-> "Sql", ext |-> {".sql"}, Reader |-> FALSE, read |-> FALSE,
     write |-> TRUE, sortOnWrite |-> "NEVER", sortKey |-> "None",
     readOptions |-> {}, writeOptions |-> {"encoding"}],
    [name |-> "Xdxf", ext |-> {".xdxf", ".csv"}, Reader |-> FALSE, read |-> TRUE,
     write |-> FALSE, sortOnWrite |-> "DEFAULT_NO", sortKey |-> "None",
     readOptions |-> {}, writeOptions |-> {}] >>

FormatNames == {Plugins[i].name : i \in DOMAIN Plugins}

\* A format name no plugin registers
UnknownFormat == "Nope"

\* The place of a format in the registry
FormatIndex(format) == CHOOSE i \in DOMAIN Plugins : Plugins[i].name = format

Plugin(format) == Plugins[FormatIndex(format)]

\* Glossary.readerClasses, readFunctions, writeFunctions: the formats in them
HasReaderClass(format) == format \in FormatNames /\ Plugin(format).Reader
HasReadFunction(format) == format \in FormatNames /\ Plugin(format).read
HasWriteFunction(format) == format \in FormatNames /\ Plugin(format).write

\* The input files: extension and the items a reader of the file yields
InputFiles == {"a.txt", "b.txt", "c.csv", "e.dat"}

\* A file that cannot be opened: the reader's open() raises on it
UnreadableFiles == {"bad.txt"}

FileOpens(f) == f \notin UnreadableFiles

FileExt(f) ==
    CASE f = "a.txt" -> ".txt"
      [] f = "b.txt" -> ".txt"
      [] f = "bad.txt" -> ".txt"
      [] f = "c.csv" -> ".csv"
      [] OTHER -> ".dat"

FileContent(f) ==
    CASE f = "a.txt" -> <<E(" b", "1"), E("a", "2")>>
      [] f = "b.txt" -> <<None, E("a", "3")>>
      [] f = "c.csv" -> <<E("  ", "4"), E("b", "5")>>
      [] OTHER -> <<>>

\* The entries addEntry is called with
NewEntries == {E("B", "6")}

----------------------------------------------------------------------------
(* The glossary object.  The handlers below are functions of a record S of  *)
(* its fields: data, readers, rd, it, entryFilters, sortKey, sortCacheSize, *)
(* info, defaultDefiFormat, and ev, the calls made so far by the running    *)
(* operation:                                                               *)
(*   <<"next", r>>   next() on the iterator of reader r                     *)
(*   <<"close", r>>  r.close()                                              *)
(*   <<"filters", n>>  the filter chain ran n filters on an upstream item   *)
(*   <<"format", i>>   read uses the format at place i of the registry      *)
(*   <<"outputFormat", i>>  convert writes the format at place i            *)
(*   <<"read", d>>   convert calls read, d = 1 with direct=True, else 0     *)
(*   <<"write", 0>>  convert calls write                                    *)
(*   <<"readOk", 0>>, <<"readFailed", 0>>  read returned True / did not     *)
(*   <<"writeFnRaised", 0>>  an exception left the plugin's write function  *)
(*   <<"sortWords", 0>>, <<"updateIter", 0>>  write calls sortWords /       *)
(*                                            _updateIter(sort=False)       *)
(*   <<"writeFn", 0>>  the plugin's write function is called                *)
(*   <<"archive", 0>>  archiveOutDir is called                              *)
(*   <<"openRaised", 0>>  the reader's open() raised                        *)
(*   <<"closeRaised", r>>  r.close() raised                                 *)
(***************************************************************************)

\* self._sortCacheSize after clear()
DefaultSortCacheSize == 1000

\* self._iter: kind "None" (no iterator), or the generator chain over
\*   "loaded":  _loadedEntryGen, di items of _data consumed;
\*   "readers": _readersEntryGen, suspended inside the reader at index ri of
\*              its list;
\*   "sorted":  hsortStreamList, buf the merged entries not yet emitted.
\* live: the list the generator iterates is the object self._readers names;
\* lst: that list, once self._readers names another object.
NoIter ==
    [kind |-> "None", started |-> FALSE, done |-> FALSE, live |-> FALSE,
     lst |-> <<>>, ri |-> 0, di |-> 0, buf |-> <<>>, key |-> "None", cache |-> 0]

Ev(S, name, r) == [S EXCEPT !.ev = Append(@, <<name, r>>)]

\* The items reader r has not yielded yet; a closed reader yields nothing
Remaining(S, r) ==
    LET c == S.rd[r].items
    IN  IF S.rd[r].closed THEN <<>> ELSE SubSeq(c, S.rd[r].pos + 1, Len(c))

\* reader.close()
ReaderClose(S, r) == Ev([S EXCEPT !.rd[r].closed = TRUE], "close", r)

\* The truthy items of a sequence
RECURSIVE TruthyOnly(_)
TruthyOnly(s) ==
    IF s = <<>> THEN <<>>
    ELSE (IF Truthy(Head(s)) THEN <<Head(s)>> ELSE <<>>) \o TruthyOnly(Tail(s))

\* loadReader(reader) putting each entry in front of _data
RECURSIVE LoadReaderPrepending(_, _)
LoadReaderPrepending(S, r) ==
    LET S1 == Ev(S, "next", r)
    IN  IF Remaining(S, r) = <<>> THEN ReaderClose(S1, r)
        ELSE LET entry == Head(Remaining(S, r))
             IN  LoadReaderPrepending(
                     [S1 EXCEPT !.rd[r].pos = @ + 1,
                                !.data = IF Truthy(entry)
                                         THEN <<entry>> \o @ ELSE @], r)

\* loadReader(reader): every truthy entry of the reader is appended to _data,
\* then the reader is closed
RECURSIVE LoadReader(_, _)
LoadReader(S, r) ==
    LET S1 == Ev(S, "next", r)
    IN  IF Remaining(S, r) = <<>> THEN ReaderClose(S1, r)
        ELSE LET entry == Head(Remaining(S, r))
             IN  LoadReader([S1 EXCEPT !.rd[r].pos = @ + 1,
                                       !.data = IF Truthy(entry)
                                                THEN Append(@, entry) ELSE @], r)

RECURSIVE LoadReaders(_, _)
LoadReaders(S, rs) ==
    IF rs = <<>> THEN S ELSE LoadReaders(LoadReader(S, Head(rs)), Tail(rs))

\* self._readers = []: a generator bound to the old list keeps that list
DetachReaders(S) ==
    [S EXCEPT !.readers = <<>>,
              !.it = IF @.live THEN [@ EXCEPT !.live = FALSE, !.lst = S.readers]
                     ELSE @]

\* _inactivateDirectMode() without its last line: the readers stay attached
InactivateKeepingReaders(S) == LoadReaders(S, S.readers)

\* _inactivateDirectMode()
InactivateDirectMode(S) == DetachReaders(LoadReaders(S, S.readers))

\* The list of readers the generator iterates
IterList(S) == IF S.it.live THEN S.readers ELSE S.it.lst

\* _loadedEntryGen resumed
LoadedGenNext(S) ==
    IF S.it.di < Len(S.data)
    THEN [S |-> [S EXCEPT !.it.di = @ + 1, !.it.started = TRUE],
          item |-> S.data[S.it.di + 1], stop |-> FALSE, err |-> FALSE]
    ELSE [S |-> [S EXCEPT !.it.done = TRUE, !.it.started = TRUE],
          item |-> None, stop |-> TRUE, err |-> FALSE]

\* _readersEntryGen without its finally block: an exhausted reader is left open
RECURSIVE ReadersGenLeavingOpen(_, _)
ReadersGenLeavingOpen(S, i) ==
    IF i > Len(IterList(S))
    THEN [S |-> [S EXCEPT !.it.done = TRUE], item |-> None,
          stop |-> TRUE, err |-> FALSE]
    ELSE LET r == IterList(S)[i]
             S1 == Ev(S, "next", r)
         IN  IF Remaining(S, r) # <<>>
             THEN [S |-> [S1 EXCEPT !.rd[r].pos = @ + 1, !.it.ri = i],
                   item |-> Head(Remaining(S, r)), stop |-> FALSE, err |-> FALSE]
             ELSE ReadersGenLeavingOpen(S1, i + 1)

\* _readersEntryGen running in the reader at index i of its list: the next
\* entry of that reader, or the reader is closed and the next one begins
RECURSIVE ReadersGenFrom(_, _)
ReadersGenFrom(S, i) ==
    IF i > Len(IterList(S))
    THEN [S |-> [S EXCEPT !.it.done = TRUE], item |-> None,
          stop |-> TRUE, err |-> FALSE]
    ELSE LET r == IterList(S)[i]
             S1 == Ev(S, "next", r)
         IN  IF Remaining(S, r) # <<>>
             THEN [S |-> [S1 EXCEPT !.rd[r].pos = @ + 1, !.it.ri = i],
                   item |-> Head(Remaining(S, r)), stop |-> FALSE, err |-> FALSE]
             ELSE ReadersGenFrom(ReaderClose(S1, r), i + 1)

\* _readersEntryGen resumed; its first next() binds the list self._readers names
ReadersGenNext(S) ==
    IF ~S.it.started
    THEN ReadersGenFrom([S EXCEPT !.it.started = TRUE, !.it.live = TRUE], 1)
    ELSE ReadersGenFrom(S, S.it.ri)

\* A reader's stream pulled to its end by the sort-merge (no close)
RECURSIVE DrainReader(_, _)
DrainReader(S, r) ==
    LET S1 == Ev(S, "next", r)
    IN  IF Remaining(S, r) = <<>> THEN S1
        ELSE DrainReader([S1 EXCEPT !.rd[r].pos = @ + 1], r)

RECURSIVE DrainReaders(_, _)
DrainReaders(S, rs) ==
    IF rs = <<>> THEN S ELSE DrainReaders(DrainReader(S, Head(rs)), Tail(rs))

\* The next entry of the merged sequence
SortedPop(S) ==
    IF S.it.buf = <<>>
    THEN [S |-> [S EXCEPT !.it.done = TRUE], item |-> None,
          stop |-> TRUE, err |-> FALSE]
    ELSE [S |-> [S EXCEPT !.it.buf = Tail(@)], item |-> Head(S.it.buf),
          stop |-> FALSE, err |-> FALSE]

\* iter(hsortStreamList(readers, cacheSize, key)) resumed: its first next()
\* reads every stream into sorted runs; the key function fails on None
SortedGenNext(S) ==
    IF S.it.started THEN SortedPop(S)
    ELSE LET lst == IterList(S)
             streams == [i \in DOMAIN lst |-> Remaining(S, lst[i])]
             S1 == [DrainReaders(S, lst) EXCEPT !.it.started = TRUE]
         IN  IF \E i \in DOMAIN streams : \E j \in DOMAIN streams[i] :
                    ~Truthy(streams[i][j])
             THEN [S |-> [S1 EXCEPT !.it.done = TRUE], item |-> None,
                   stop |-> FALSE, err |-> TRUE]
             ELSE SortedPop([S1 EXCEPT !.it.buf =
                                HSortStreamList(streams, S.it.cache, S.it.key)])

\* next() on the generator under the filter chain
GenNext(S) ==
    CASE S.it.kind = "None" \/ S.it.done ->
            [S |-> S, item |-> None, stop |-> TRUE, err |-> FALSE]
      [] S.it.kind = "loaded" /\ ~S.it.done -> LoadedGenNext(S)
      [] S.it.kind = "readers" /\ ~S.it.done -> ReadersGenNext(S)
      [] S.it.kind = "sorted" /\ ~S.it.done -> SortedGenNext(S)

\* _applyEntryFiltersGen resumed, that is next(self._iter): upstream items are
\* pulled until one survives the chain self._entryFilters
RECURSIVE ApplyEntryFiltersGen(_)
ApplyEntryFiltersGen(S) ==
    LET Filtered(u) ==
            IF u.stop \/ u.err THEN u
            ELSE LET entry == ApplyEntryFilters(u.S.entryFilters, u.item)
                     S1 == IF Truthy(u.item)
                           THEN Ev(u.S, "filters",
                                   FiltersRun(u.S.entryFilters, u.item))
                           ELSE u.S
                 IN  IF Truthy(entry) THEN [u EXCEPT !.item = entry, !.S = S1]
                     ELSE ApplyEntryFiltersGen(S1)
    IN  Filtered(GenNext(S))

\* for entry in glos: the whole iterator consumed
RECURSIVE IterAll(_, _)
IterAll(S, acc) ==
    LET Collected(u) ==
            IF u.stop \/ u.err THEN [S |-> u.S, out |-> acc, err |-> u.err]
            ELSE IterAll(u.S, Append(acc, u.item))
    IN  Collected(ApplyEntryFiltersGen(S))

\* The loop of iterEntryBuckets over the entries the iterator yields: a full
\* bucket is yielded when the next entry arrives, the last bucket after the
\* loop
RECURSIVE BucketsOf(_, _, _)
BucketsOf(entries, bucket, size) ==
    IF entries = <<>> THEN <<bucket>>
    ELSE IF Len(bucket) >= size
         THEN <<bucket>> \o BucketsOf(Tail(entries), <<Head(entries)>>, size)
         ELSE BucketsOf(Tail(entries), Append(bucket, Head(entries)), size)

\* list(glos.iterEntryBuckets(size)): an exception of the iterator leaves
\* the generator before the last bucket is yielded
IterEntryBuckets(S, size) ==
    LET Bucketed(a) ==
            [S |-> a.S, err |-> a.err, out |-> a.out,
             buckets |-> IF a.err
                         THEN SubSeq(BucketsOf(a.out, <<>>, size), 1,
                                     Len(BucketsOf(a.out, <<>>, size)) - 1)
                         ELSE BucketsOf(a.out, <<>>, size)]
    IN  Bucketed(IterAll(S, <<>>))

----------------------------------------------------------------------------
(* The info mapping *)

\* Python's str.lower() on the info keys of the model
LowerKey(k) ==
    CASE k = "Title" -> "title"
      [] k = "Name" -> "name"
      [] k = "sourceLang" -> "sourcelang"
      [] k = "targetLang" -> "targetlang"
      [] OTHER -> k

\* Glossary.infoKeysAliasDict: the canonical key of a lower-cased key, ""
\* for a key the table does not hold (KeyError)
InfoKeysAliasDict(k) ==
    CASE k \in {"title", "bookname", "dbname"} -> "name"
      [] k \in {"sourcelang", "inputlang", "origlang"} -> "sourceLang"
      [] k \in {"targetlang", "outputlang", "destlang"} -> "targetLang"
      [] k = "license" -> "copyright"
      [] OTHER -> ""

\* The key as getInfo and setInfo look it up
InfoKey(key) ==
    IF InfoKeysAliasDict(LowerKey(key)) # "" THEN InfoKeysAliasDict(LowerKey(key))
    ELSE key

\* The place of key k in the mapping, 0 when it is not there
InfoIndex(m, k) ==
    IF \E i \in DOMAIN m : m[i][1] = k
    THEN CHOOSE i \in DOMAIN m : m[i][1] = k
    ELSE 0

\* getInfo(key): "" for a key the mapping does not hold
GetInfo(S, key) ==
    IF InfoIndex(S.info, InfoKey(key)) = 0 THEN ""
    ELSE S.info[InfoIndex(S.info, InfoKey(key))][2]

\* setInfo(key, value) storing the key as it is given
SetInfoAsGiven(S, key, value) ==
    IF InfoIndex(S.info, key) = 0
    THEN [S EXCEPT !.info = Append(@, <<key, value>>)]
    ELSE [S EXCEPT !.info[InfoIndex(S.info, key)] = <<key, value>>]

\* setInfo(key, value): self._info[key] = value under the looked-up key; an
\* existing key keeps its place, a new one goes to the end.  The keys and
\* values of the model are valid text without NUL, which fixUtf8 leaves as
\* it is
SetInfo(S, key, value) ==
    IF InfoIndex(S.info, InfoKey(key)) = 0
    THEN [S EXCEPT !.info = Append(@, <<InfoKey(key), value>>)]
    ELSE [S EXCEPT !.info[InfoIndex(S.info, InfoKey(key))] = <<InfoKey(key), value>>]

----------------------------------------------------------------------------
(* The handlers *)

\* The generator self._iter is suspended inside the try block of
\* _readersEntryGen
Suspended(S) == S.it.kind = "readers" /\ S.it.started /\ ~S.it.done

\* Whether dropping the last reference to a suspended generator runs its
\* finally block at once depends on the interpreter and on the references
\* the caller holds: both outcomes are possible
FinChoices(S) == IF Suspended(S) THEN BOOLEAN ELSE {FALSE}

\* _updateIter(sort) leaving self._iter as it is
UpdateIterKeeping(S, sort, fin) == S

\* _updateIter(sort); fin: the generator replaced is finalized, which closes
\* the reader it was suspended in
UpdateIter(S, sort, fin) ==
    LET S1 == IF fin /\ Suspended(S)
              THEN ReaderClose(S, IterList(S)[S.it.ri]) ELSE S
    IN  [S1 EXCEPT !.it =
            IF S.readers # <<>>
            THEN IF sort
                 THEN [NoIter EXCEPT !.kind = "sorted", !.live = TRUE,
                                     !.key = S.sortKey, !.cache = S.sortCacheSize]
                 ELSE [NoIter EXCEPT !.kind = "readers"]
            ELSE [NoIter EXCEPT !.kind = "loaded"]]

\* sortWords(key, cacheSize) storing any cacheSize it is given
SortWordsStoringAny(S, key, cacheSize, fin) ==
    LET S1 == IF S.readers # <<>>
              THEN [S EXCEPT !.sortKey = key, !.sortCacheSize = cacheSize]
              ELSE [S EXCEPT !.data = SortByKey(@, key)]
    IN  UpdateIter(S1, TRUE, fin)

\* sortWords(key, cacheSize)
SortWords(S, key, cacheSize, fin) ==
    LET S1 == IF S.readers # <<>>
              THEN [S EXCEPT !.sortKey = key,
                             !.sortCacheSize = IF cacheSize > 0 THEN cacheSize ELSE @]
              ELSE [S EXCEPT !.data = SortByKey(@, key)]
    IN  UpdateIter(S1, TRUE, fin)

\* The loop of clear() inside one try block: the first close() that raises
\* ends it
RECURSIVE CloseAllUntilRaise(_, _, _)
CloseAllUntilRaise(S, rs, craises) ==
    IF rs = <<>> THEN S
    ELSE IF Head(rs) \in craises
         THEN Ev(ReaderClose(S, Head(rs)), "closeRaised", Head(rs))
         ELSE CloseAllUntilRaise(ReaderClose(S, Head(rs)), Tail(rs), craises)

\* The loop of clear(): close() is called on each reader, an exception it
\* raises (the readers of craises raise) is logged and the loop goes on
RECURSIVE CloseAll(_, _, _)
CloseAll(S, rs, craises) ==
    IF rs = <<>> THEN S
    ELSE CloseAll(IF Head(rs) \in craises
                  THEN Ev(ReaderClose(S, Head(rs)), "closeRaised", Head(rs))
                  ELSE ReaderClose(S, Head(rs)),
                  Tail(rs), craises)

\* clear(): every attached reader is closed and the fields are reset; the
\* Reader objects are no longer referenced by the glossary.  craises: the
\* readers whose close() raises
ClearWith(S, craises) ==
    [CloseAll(S, S.readers, craises) EXCEPT
        !.data = <<>>, !.readers = <<>>, !.rd = <<>>, !.it = NoIter,
        !.entryFilters = <<>>, !.sortKey = "None",
        !.sortCacheSize = DefaultSortCacheSize, !.info = <<>>,
        !.defaultDefiFormat = "m"]

\* clear() when no close() raises
Clear(S) == ClearWith(S, {})

\* The format read() detects from the extension: the loop over formatsExt has
\* no break, the last registered format listing the extension is kept
DetectReadFormat(ext) ==
    LET hits == {i \in DOMAIN Plugins : ext \in Plugins[i].ext}
    IN  IF hits = {} THEN ""
        ELSE Plugins[CHOOSE i \in hits : \A j \in hits : j <= i].name

\* The caller's options passed on as they are
ValidOptionsKeepingAll(validOptionKeys, options) == options

\* The loop over the caller's options: a key the format does not list is
\* deleted.  An option is a pair <<key, value>>
ValidOptions(validOptionKeys, options) ==
    {o \in options : o[1] \in validOptionKeys}

\* reader.open() raising after the reader was put on the list
OpenRaisedAttached(S, filename, direct) ==
    IF direct
    THEN Ev([S EXCEPT !.rd = Append(@, [items |-> FileContent(filename),
                                         pos |-> 0, closed |-> FALSE]),
                      !.readers = Append(@, Len(S.rd) + 1)],
            "openRaised", 0)
    ELSE Ev(S, "openRaised", 0)

\* reader.open() raises: the exception leaves read(), the Reader object is
\* dropped
OpenRaised(S, filename, direct) == Ev(S, "openRaised", 0)

\* read() after its check of the readers: the filter chain is rebuilt, the
\* format is found, the file is opened and attached or loaded.
\* result: "True", "False", or the exception raised; passed: the options the
\* reader's open() or the read function is called with
ReadFile(S, p, filename, format, direct, options, fin) ==
    LET S0 == [S EXCEPT !.entryFilters = UpdateEntryFilters(p)]
        fmt == IF format = "" THEN DetectReadFormat(FileExt(filename)) ELSE format
        S1 == IF fmt \in FormatNames THEN Ev(S0, "format", FormatIndex(fmt)) ELSE S0
    IN  IF fmt = "" THEN [S |-> S1, result |-> "False", passed |-> {}]
        ELSE IF fmt \notin FormatNames
             \* loadPluginByFormat: formatsFilename[format]
             THEN [S |-> S1, result |-> "KeyError", passed |-> {}]
        ELSE IF ~(HasReaderClass(fmt) \/ HasReadFunction(fmt))
             \* formatsReadOptions[format]
             THEN [S |-> S1, result |-> "KeyError", passed |-> {}]
        ELSE
        LET named == IF GetInfo(S1, "name") = "" THEN SetInfo(S1, "name", filename)
                     ELSE S1
            r == Len(named.rd) + 1
            opened == [named EXCEPT !.rd = Append(@, [items |-> FileContent(filename),
                                                        pos |-> 0, closed |-> FALSE])]
            S2 == IF HasReaderClass(fmt)
                  THEN IF direct
                       THEN [opened EXCEPT !.readers = Append(@, r)]
                       ELSE \* the reader is local to the call
                            [LoadReader(opened, r) EXCEPT !.rd = named.rd]
                  ELSE \* the plugin's read function adds the entries of the file
                       [named EXCEPT !.data = @ \o TruthyOnly(FileContent(filename))]
        IN  IF HasReaderClass(fmt) /\ ~FileOpens(filename)
            \* reader.open() raises
            THEN [S |-> OpenRaised(named, filename, direct), result |-> "IOError",
                  passed |-> ValidOptions(Plugin(fmt).readOptions, options)]
            ELSE [S |-> UpdateIter(S2, FALSE, fin), result |-> "True",
                  passed |-> ValidOptions(Plugin(fmt).readOptions, options)]

\* read() without its check of the readers
ReadMergingModes(S, p, filename, format, direct, options, fin) ==
    ReadFile(S, p, filename, format, direct, options, fin)

\* read(filename, format, direct, **options): direct=False is refused while
\* readers are attached
Read(S, p, filename, format, direct, options, fin) ==
    IF S.readers # <<>> /\ ~direct
    THEN [S |-> S, result |-> "ValueError", passed |-> {}]
    ELSE ReadFile(S, p, filename, format, direct, options, fin)

\* The sort decision with NEVER yielding to the caller's sort=True
EffectiveSortCallerWins(sortOnWrite, sort) ==
    CASE sortOnWrite = "ALWAYS" -> TRUE
      [] sortOnWrite = "DEFAULT_YES" -> sort = "None" \/ sort = "True"
      [] sortOnWrite = "DEFAULT_NO" -> sort = "True"
      [] sortOnWrite = "NEVER" -> sort = "True"

\* The sort decision of write(): the plugin's sortOnWrite and the caller's
\* sort ("None", "True" or "False")
EffectiveSort(sortOnWrite, sort) ==
    CASE sortOnWrite = "ALWAYS" -> TRUE
      [] sortOnWrite = "DEFAULT_YES" -> sort = "None" \/ sort = "True"
      [] sortOnWrite = "DEFAULT_NO" -> sort = "True"
      [] sortOnWrite = "NEVER" -> FALSE

\* The key write() sorts by
WriteSortKey(plugin, key) ==
    IF key = "None" THEN plugin.sortKey
    ELSE IF plugin.sortOnWrite = "ALWAYS" /\ plugin.sortKey # "None"
         THEN plugin.sortKey
         ELSE key

NoSnap ==
    [called |-> FALSE, data |-> <<>>, readers |-> <<>>, iter |-> "None",
     options |-> {}]

\* The plugin's write function: it iterates the glossary; a writer that
\* raises does so after its first pull.  out: the entries it received;
\* raised: an exception left it (its own, or one raised by the iterator)
WriteFn(S, wraises) ==
    LET Raising(u) ==
            [S |-> u.S, raised |-> TRUE,
             out |-> IF u.stop \/ u.err THEN <<>> ELSE <<u.item>>]
        Returning(a) == [S |-> a.S, raised |-> a.err, out |-> a.out]
    IN  IF wraises THEN Raising(ApplyEntryFiltersGen(S))
        ELSE Returning(IterAll(S, <<>>))

\* The end of write() without the finally block: clear() runs only when the
\* write function returns
WritePluginNoFinally(S, options, wraises) ==
    LET Finish(w) ==
            [S |-> IF w.raised THEN Ev(w.S, "writeFnRaised", 0) ELSE Clear(w.S),
             result |-> IF w.raised THEN "None" ELSE "path",
             snap |-> [called |-> TRUE, data |-> S.data, readers |-> S.readers,
                       iter |-> S.it.kind, options |-> options],
             written |-> w.out]
    IN  Finish(WriteFn(Ev(S, "writeFn", 0), wraises))

\* The end of write(): the plugin's write function is called; an exception
\* leaving it is caught and None returned; clear() runs in either case
WritePlugin(S, options, wraises) ==
    LET Finish(w) ==
            [S |-> Clear(IF w.raised THEN Ev(w.S, "writeFnRaised", 0) ELSE w.S),
             result |-> IF w.raised THEN "None" ELSE "path",
             snap |-> [called |-> TRUE, data |-> S.data, readers |-> S.readers,
                       iter |-> S.it.kind, options |-> options],
             written |-> w.out]
    IN  Finish(WriteFn(Ev(S, "writeFn", 0), wraises))

\* write(filename, format, sort, sortKey, sortCacheSize, **options).
\* result: "path" (the absolute output path), "None", or the exception
\* raised; snap: _data, _readers, the kind of _iter and the options when the
\* plugin's write function is called; written: the entries the write function
\* pulled
Write(S, format, sort, key, cacheSize, options, wraises, fin) ==
    IF format \notin FormatNames
    \* loadPluginByFormat: formatsFilename[format]
    THEN [S |-> S, result |-> "KeyError", snap |-> NoSnap, written |-> <<>>]
    ELSE IF ~HasWriteFunction(format)
    THEN [S |-> S, result |-> "None", snap |-> NoSnap, written |-> <<>>]
    ELSE
    LET plugin == Plugin(format)
        Sorted(S1) ==
            IF EffectiveSort(plugin.sortOnWrite, sort)
            THEN SortWords(Ev(S1, "sortWords", 0), WriteSortKey(plugin, key),
                           cacheSize, fin)
            ELSE UpdateIter(Ev(S1, "updateIter", 0), FALSE, fin)
    IN  WritePlugin(Sorted(IF plugin.sortOnWrite = "ALWAYS" /\ S.readers # <<>>
                           THEN InactivateDirectMode(S) ELSE S),
                    ValidOptions(plugin.writeOptions, options), wraises)

\* The output file names convert() is called with: the archive suffix
\* (without the dot, "" when there is none) and the extension under it
OutputFiles == {"out.txt", "out.ifo.gz", "out.csv", "out.unknownext"}

OutArchive(f) == IF f = "out.ifo.gz" THEN "gz" ELSE ""

OutExt(f) ==
    CASE f = "out.txt" -> ".txt"
      [] f = "out.ifo.gz" -> ".ifo"
      [] f = "out.csv" -> ".csv"
      [] OTHER -> ".unknownext"

\* _detectOutput(filename, format) falling back to the first registered
\* format when the extension is listed by none
DetectOutputDefaulting(filename, format) ==
    LET hits == {i \in DOMAIN Plugins : OutExt(filename) \in Plugins[i].ext}
        fmt == IF format # "" THEN format
               ELSE IF hits = {} THEN Plugins[1].name
               ELSE Plugins[CHOOSE i \in hits : \A j \in hits : j <= i].name
    IN  [ok |-> fmt # "", format |-> fmt, archiveType |-> OutArchive(filename)]

\* _detectOutput(filename, format) for a non-empty filename that is neither a
\* format name nor an extension token: the archive suffix is split off; with
\* no format given, the loop over formatsExt (no break) keeps the last format
\* listing the extension.  ok = FALSE: the result is None
DetectOutput(filename, format) ==
    LET hits == {i \in DOMAIN Plugins : OutExt(filename) \in Plugins[i].ext}
        fmt == IF format # "" THEN format
               ELSE IF hits = {} THEN ""
               ELSE Plugins[CHOOSE i \in hits : \A j \in hits : j <= i].name
    IN  [ok |-> fmt # "", format |-> fmt, archiveType |-> OutArchive(filename)]

\* direct as convert() would pass it if it did not look at sort
ConvertDirectWhateverSort(direct, sort) == direct # "False"

\* direct as convert() passes it to read(): "None" means not given
ConvertDirect(direct, sort) ==
    IF direct = "None" THEN sort # "True" ELSE direct = "True"

\* convert() after read() returned True: write() is called, and
\* archiveOutDir() when write() returned a path and the output file name had
\* an archive suffix
ConvertWrite(S, outputArgs, sort, wraises) ==
    LET Archived(w) ==
            IF w.result # "path" THEN w
            ELSE IF outputArgs.archiveType # ""
                 THEN [w EXCEPT !.S = Ev(w.S, "archive", 0)]
                 ELSE w
    IN  Archived(Write(Ev(S, "write", 0), outputArgs.format, sort, "None",
                       DefaultSortCacheSize, {}, wraises, FALSE))

\* convert(inputFilename, direct=, outputFilename=, outputFormat=, sort=), the
\* other arguments at their defaults
Convert(S, p, inputFilename, direct, outputFilename, outputFormat, sort, wraises, fin) ==
    LET outputArgs == DetectOutput(outputFilename, outputFormat)
    IN  IF ~outputArgs.ok
        THEN [S |-> S, result |-> "None", snap |-> NoSnap, written |-> <<>>]
        ELSE
        LET AfterRead(rr) ==
                IF rr.result # "True"
                THEN [S |-> Ev(rr.S, "readFailed", 0),
                      result |-> IF rr.result = "False" THEN "None" ELSE rr.result,
                      snap |-> NoSnap, written |-> <<>>]
                ELSE ConvertWrite(Ev(rr.S, "readOk", 0), outputArgs, sort, wraises)
            S1 == IF outputArgs.format \in FormatNames
                  THEN Ev(S, "outputFormat", FormatIndex(outputArgs.format))
                  ELSE S
        IN  AfterRead(Read(Ev(S1, "read", IF ConvertDirect(direct, sort) THEN 1 ELSE 0),
                           p, inputFilename, "", ConvertDirect(direct, sort), {}, fin))

----------------------------------------------------------------------------
(* The state machine *)

\* The preferences of the glossary: the defaults of updateEntryFilters
DefaultPref == [skipResources |-> FALSE, utf8Check |-> TRUE, lower |-> TRUE]

Sorts == {"None", "True", "False"}

\* The fields of the glossary as a record, with no call made yet
Cur ==
    [data |-> data, readers |-> readers, rd |-> rd, it |-> it,
     entryFilters |-> entryFilters, sortKey |-> sortKey,
     sortCacheSize |-> sortCacheSize, info |-> info,
     defaultDefiFormat |-> defaultDefiFormat, ev |-> <<>>]

Install(S) ==
    /\ data' = S.data
    /\ readers' = S.readers
    /\ rd' = S.rd
    /\ it' = S.it
    /\ entryFilters' = S.entryFilters
    /\ sortKey' = S.sortKey
    /\ sortCacheSize' = S.sortCacheSize
    /\ info' = S.info
    /\ defaultDefiFormat' = S.defaultDefiFormat
    /\ pref' = pref

\* What a call did and the arguments it was given
Call(op, result, S) ==
    [op |-> op, result |-> result, ev |-> S.ev, item |-> None, snap |-> NoSnap,
     written |-> <<>>, format |-> "", sort |-> "None", direct |-> "None",
     filename |-> "", cacheSize |-> 0, options |-> {}, passed |-> {},
     key |-> "", value |-> "", size |-> 0, buckets |-> <<>>]

\* Glossary(): __init__ calls clear()
Init ==
    /\ data = <<>>
    /\ readers = <<>>
    /\ rd = <<>>
    /\ it = NoIter
    /\ entryFilters = <<>>
    /\ sortKey = "None"
    /\ sortCacheSize = DefaultSortCacheSize
    /\ pref = DefaultPref
    /\ info = <<>>
    /\ defaultDefiFormat = "m"
    /\ last = Call("init", "None", Cur)

\* write() and convert() end a session: they leave the glossary cleared or,
\* when they fail before the plugin's write function is called, as a failed
\* read leaves it.  A run is followed up to its first write or convert.
InSession == last.op \notin {"write", "convert"}

\* glos.addEntry(word, defi) with an entry of a set
AddEntryOf(entries) ==
    \E e \in entries :
        /\ InSession
        /\ Len(data) < MaxData
        /\ Install([Cur EXCEPT !.data = Append(@, e)])
        /\ last' = Call("addEntry", "None", Cur)

AddEntry == AddEntryOf(NewEntries)

\* The arguments read() is called with: <<filename, format>>
ReadArgs ==
    {<<f, "">> : f \in InputFiles} \cup {<<"a.txt", "Sql">>, <<"a.txt", UnknownFormat>>}

\* glos.read(filename, format, direct, **options) with the arguments
\* a = <<filename, format>>, while _data is shorter than maxData
ReadWithin(args, optionSets, directs, maxData) ==
    \E a \in args, direct \in directs, options \in optionSets,
       fin \in FinChoices(Cur) :
        /\ InSession
        /\ Len(rd) < MaxReaders
        /\ Len(data) < maxData
        /\ \E r \in {Read(Cur, pref, a[1], a[2], direct, options, fin)} :
               /\ Install(r.S)
               /\ last' = [Call("read", r.result, r.S) EXCEPT
                              !.filename = a[1],
                              !.format = a[2],
                              !.direct = IF direct THEN "True" ELSE "False",
                              !.options = options,
                              !.passed = r.passed]

ReadWith(args, optionSets) == ReadWithin(args, optionSets, BOOLEAN, MaxData)

\* read() called without options
DoRead == ReadWith(ReadArgs, {{}})

\* next(iter(glos)): one entry pulled by a consumer of the glossary
DoNext ==
    /\ InSession
    /\ \E u \in {ApplyEntryFiltersGen(Cur)} :
           /\ Install(u.S)
           /\ last' = [Call("next", IF u.err THEN "Error"
                                    ELSE IF u.stop THEN "StopIteration" ELSE "entry",
                            u.S) EXCEPT !.item = u.item]

\* list(glos): a consumer iterates the glossary to the end
DoIterAll ==
    /\ InSession
    /\ \E a \in {IterAll(Cur, <<>>)} :
           /\ Install(a.S)
           /\ last' = [Call("iterAll", IF a.err THEN "Error" ELSE "None", a.S)
                          EXCEPT !.written = a.out]

\* glos.sortWords(key, cacheSize)
SortWordsWith(keys, cacheSizes) ==
    \E key \in keys, cacheSize \in cacheSizes, fin \in FinChoices(Cur) :
        /\ InSession
        /\ \E S \in {SortWords(Cur, key, cacheSize, fin)} :
               /\ Install(S)
               /\ last' = [Call("sortWords", "None", S) EXCEPT
                              !.cacheSize = cacheSize, !.key = key]

DoSortWords == SortWordsWith({"raw"}, {-1, 0, 1})

\* glos._updateIter(sort)
DoUpdateIter ==
    \E sort \in BOOLEAN, fin \in FinChoices(Cur) :
        /\ InSession
        /\ \E S \in {UpdateIter(Cur, sort, fin)} :
               /\ Install(S)
               /\ last' = Call("updateIter", "None", S)

\* glos._inactivateDirectMode()
DoInactivateDirectMode ==
    /\ InSession
    /\ \E S \in {InactivateDirectMode(Cur)} :
           /\ Install(S)
           /\ last' = Call("inactivateDirectMode", "None", S)

\* glos.write(filename, format, sort, sortKey, sortCacheSize, **options) with
\* the arguments a = <<format, sort, sortKey, sortCacheSize>> and a plugin
\* write function that raises or not
WriteWith(args, optionSets) ==
    \E a \in args, options \in optionSets, wraises \in BOOLEAN,
       fin \in FinChoices(Cur) :
        /\ InSession
        /\ \E w \in {Write(Cur, a[1], a[2], a[3], a[4], options, wraises, fin)} :
               /\ Install(w.S)
               /\ last' = [Call("write", w.result, w.S) EXCEPT
                              !.snap = w.snap, !.written = w.written,
                              !.format = a[1], !.sort = a[2],
                              !.options = options,
                              !.passed = w.snap.options]

\* Every format (one of them unregistered) with every sort, the other
\* arguments at their defaults; and every format with a key of the caller
WriteArgs ==
    {<<f, s, "None", DefaultSortCacheSize>> :
        f \in FormatNames \cup {UnknownFormat}, s \in Sorts}
    \cup {<<f, "True", "lower", DefaultSortCacheSize>> : f \in FormatNames}

\* write() called without options
DoWrite == WriteWith(WriteArgs, {{}})

\* Glossary().convert(inputFilename, direct=, outputFilename=, outputFormat=,
\* sort=) on a new glossary
DoConvert ==
    \E f \in InputFiles, direct \in Sorts, out \in OutputFiles,
       outputFormat \in {"", "Tabfile"}, sort \in Sorts, wraises \in BOOLEAN :
        /\ last.op = "init"
        /\ \E c \in {Convert(Cur, pref, f, direct, out, outputFormat, sort,
                             wraises, FALSE)} :
               /\ Install(c.S)
               /\ last' = [Call("convert", c.result, c.S) EXCEPT
                              !.snap = c.snap, !.written = c.written,
                              !.filename = out,
                              !.format = outputFormat, !.sort = sort,
                              !.direct = direct]

\* The elements of a sequence
Range(s) == {s[i] : i \in DOMAIN s}

\* glos.clear(), the close() of any of the attached readers raising
DoClear ==
    \E craises \in SUBSET Range(readers) :
        /\ InSession
        /\ \E S \in {ClearWith(Cur, craises)} :
               /\ Install(S)
               /\ last' = Call("clear", "None", S)

\* The operations of a session, and convert
Next ==
    \/ AddEntry
    \/ DoRead
    \/ DoNext
    \/ DoIterAll
    \/ DoSortWords
    \/ DoUpdateIter
    \/ DoInactivateDirectMode
    \/ DoConvert
    \/ DoClear

Spec == Init /\ [][Next]_vars

\* A session that ends in write: entries are added, files are read, a
\* consumer pulls entries, and the glossary is written
NextWrite ==
    \/ AddEntry
    \/ DoRead
    \/ DoNext
    \/ DoInactivateDirectMode
    \/ DoWrite

WriteSpec == Init /\ [][NextWrite]_vars

\* Every setting of the preferences the filter chain is built from
Prefs == [skipResources : BOOLEAN, utf8Check : BOOLEAN, lower : BOOLEAN]

\* Glossary(ui=...) with any preferences
InitFilter ==
    /\ data = <<>>
    /\ readers = <<>>
    /\ rd = <<>>
    /\ it = NoIter
    /\ entryFilters = <<>>
    /\ sortKey = "None"
    /\ sortCacheSize = DefaultSortCacheSize
    /\ pref \in Prefs
    /\ info = <<>>
    /\ defaultDefiFormat = "m"
    /\ last = Call("init", "None", Cur)

\* The files read in a session that iterates: one with a blank word opened
\* by a Reader class or read by a read function, one whose reader yields None
FilterReadArgs == {<<"c.csv", "Tabfile">>, <<"c.csv", "">>, <<"b.txt", "">>}

DoReadFiltered == ReadWith(FilterReadArgs, {{}})

\* glos.addEntry(word, defi) with a word of spaces
AddBlankEntry == AddEntryOf({E("  ", "7")})

\* glos.sortWords() with the cache size left as it is
DoSortWordsFiltered == SortWordsWith({"raw"}, {0})

\* A session whose entries are iterated, sorted or not, in either mode
NextFilter ==
    \/ AddEntry
    \/ AddBlankEntry
    \/ DoReadFiltered
    \/ DoNext
    \/ DoIterAll
    \/ DoSortWordsFiltered
    \/ DoInactivateDirectMode

FilterSpec == InitFilter /\ [][NextFilter]_vars

\* read() in either mode of a file a Reader class opens: two entries that
\* pass the chain, a None and an entry, a blank word and an entry
DoReadEitherMode ==
    ReadWith({<<"a.txt", "">>, <<"b.txt", "">>, <<"c.csv", "Tabfile">>}, {{}})

\* A session that reads files in either mode and iterates, under any
\* preferences
NextPipeline ==
    \/ DoReadEitherMode
    \/ DoIterAll

PipelineSpec == InitFilter /\ [][NextPipeline]_vars

\* glos.ui.pref is changed by the user interface
DoSetPref ==
    \E p \in Prefs :
        /\ InSession
        /\ p # pref
        /\ pref' = p
        /\ UNCHANGED <<data, readers, rd, it, entryFilters, sortKey,
                       sortCacheSize, info, defaultDefiFormat>>
        /\ last' = Call("setPref", "None", Cur)

\* A session whose preferences change between reads and iterations
NextConfig ==
    \/ DoSetPref
    \/ DoReadFiltered
    \/ DoIterAll

ConfigSpec == Init /\ [][NextConfig]_vars

\* The options a caller passes to read() and write(): none, a key the
\* formats may list, a key no format lists, and several at once
OptionSets ==
    { {},
      {<<"encoding", "utf-8">>},
      {<<"bogus", "1">>},
      {<<"encoding", "latin-1">>, <<"resources", "False">>, <<"bogus", "1">>} }

DoReadOptions == ReadWith(ReadArgs, OptionSets)

\* write() to every format with the other arguments at their defaults
OptionWriteArgs ==
    {<<f, "None", "None", DefaultSortCacheSize>> : f \in FormatNames}

DoWriteOptions == WriteWith(OptionWriteArgs, OptionSets)

\* A session of reads and a write that are given options
NextOption ==
    \/ AddEntry
    \/ DoReadOptions
    \/ DoWriteOptions

OptionSpec == Init /\ [][NextOption]_vars

\* read(filename, direct=True) of a file a Reader class opens, whatever
\* _data holds: MaxReaders bounds the entries that can be drained into it
DoReadDirect ==
    ReadWithin({<<"a.txt", "">>, <<"b.txt", "">>}, {{}}, {TRUE}, 2 * MaxReaders + 2)

\* A session in direct mode that is drained into _data
NextDrain ==
    \/ AddEntry
    \/ DoReadDirect
    \/ DoNext
    \/ DoInactivateDirectMode

DrainSpec == Init /\ [][NextDrain]_vars

\* glos.sortWords(key) with every key
DoSortWordsKeyed == SortWordsWith(KeyNames, {0})

\* A session whose entries are drained into _data, sorted and iterated
NextSort ==
    \/ AddEntry
    \/ DoReadDirect
    \/ DoInactivateDirectMode
    \/ DoSortWordsKeyed
    \/ DoIterAll

SortSpec == Init /\ [][NextSort]_vars

\* glos.setDefaultDefiFormat(defiFormat)
DoSetDefaultDefiFormat ==
    \E defiFormat \in {"m", "h"} :
        /\ InSession
        /\ defiFormat # defaultDefiFormat
        /\ Install([Cur EXCEPT !.defaultDefiFormat = defiFormat])
        /\ last' = Call("setDefaultDefiFormat", "None", Cur)

\* glos.sortWords(key, cacheSize) with a key and a cache size of the caller
DoSortWordsCached == SortWordsWith({"raw"}, {1})

\* A session that is cleared
NextClear ==
    \/ AddEntry
    \/ DoReadDirect
    \/ DoNext
    \/ DoSortWordsCached
    \/ DoSetDefaultDefiFormat
    \/ DoClear

ClearSpec == Init /\ [][NextClear]_vars

\* read() of a file that opens and of one on which open() raises
DoReadUnreadable ==
    ReadWith({<<"a.txt", "">>, <<"b.txt", "">>}
                \cup {<<f, "">> : f \in UnreadableFiles}, {{}})

\* A session in which the open() of a reader raises
NextOpen ==
    \/ AddEntry
    \/ DoReadUnreadable
    \/ DoNext

OpenSpec == Init /\ [][NextOpen]_vars

\* The bucket sizes iterEntryBuckets is called with
BucketSizes == {1, 2}

\* list(glos.iterEntryBuckets(size))
DoIterEntryBuckets ==
    \E size \in BucketSizes :
        /\ InSession
        /\ \E b \in {IterEntryBuckets(Cur, size)} :
               /\ Install(b.S)
               /\ last' = [Call("iterEntryBuckets",
                                IF b.err THEN "Error" ELSE "None", b.S)
                              EXCEPT !.written = b.out, !.size = size,
                                     !.buckets = b.buckets]

\* A session whose entries are consumed in buckets
NextBucket ==
    \/ AddEntry
    \/ DoRead
    \/ DoInactivateDirectMode
    \/ DoIterEntryBuckets

BucketSpec == Init /\ [][NextBucket]_vars

\* The info keys and values of the model: keys of the alias table in lower
\* and mixed case, canonical keys, and keys the table does not know
InfoKeys ==
    {"title", "Title", "bookname", "name", "Name", "sourcelang", "sourceLang",
     "author"}

InfoValues == {"v1", "v2"}

\* glos.setInfo(key, value)
DoSetInfo ==
    \E key \in InfoKeys, value \in InfoValues :
        /\ InSession
        /\ \E S \in {SetInfo(Cur, key, value)} :
               /\ Install(S)
               /\ last' = [Call("setInfo", "None", S) EXCEPT
                              !.key = key, !.value = value]

\* glos.getInfo(key)
DoGetInfo ==
    \E key \in InfoKeys :
        /\ InSession
        /\ Install(Cur)
        /\ last' = [Call("getInfo", GetInfo(Cur, key), Cur) EXCEPT !.key = key]

\* read() of one file: it names the glossary after the file
DoReadInfo == ReadWith({<<"a.txt", "">>}, {{}})

\* A session that sets and gets the info of the glossary
NextInfo ==
    \/ DoSetInfo
    \/ DoGetInfo
    \/ DoReadInfo
    \/ DoClear

InfoSpec == Init /\ [][NextInfo]_vars

----------------------------------------------------------------------------
(* Properties *)

\* Some call named name is among the events ev
HasEv(ev, name) == \E i \in DOMAIN ev : ev[i][1] = name

\* The events ev hold the call <<name, r>> before position n
EvBefore(ev, name, r, n) == \E i \in DOMAIN ev : i < n /\ ev[i] = <<name, r>>

\* The sequence s is in nondecreasing order of the key k of its words
IsSortedBy(s, k) ==
    \A i \in 1..(Len(s) - 1) : EntrySortKey(k, s[i]) <= EntrySortKey(k, s[i + 1])

\* s and t hold the same entries, each as many times
IsPermutation(s, t) ==
    /\ Len(s) = Len(t)
    /\ \A i \in DOMAIN s :
          Cardinality({j \in DOMAIN s : s[j] = s[i]})
             = Cardinality({j \in DOMAIN t : t[j] = s[i]})

\* The items the readers rs have not yielded yet, reader after reader
RECURSIVE RemainingAll(_, _)
RemainingAll(S, rs) ==
    IF rs = <<>> THEN <<>>
    ELSE Remaining(S, Head(rs)) \o RemainingAll(S, Tail(rs))

\* C1: read(direct=False) on a glossary with an attached reader fails with
\* ValueError and leaves _data, _readers and _iter as they were.
C1_IndirectReadRejected ==
    [][ (readers # <<>> /\ last'.op = "read" /\ last'.direct = "False")
           => /\ last'.result = "ValueError"
              /\ data' = data
              /\ readers' = readers
              /\ it' = it ]_vars

\* A read(direct=False) was refused while a reader was attached
C1_Witness ==
    /\ last.op = "read"
    /\ last.direct = "False"
    /\ last.result = "ValueError"
    /\ readers # <<>>

\* C2: _data and _readers are never both non-empty.
C2_OneDataSource == ~(data # <<>> /\ readers # <<>>)

\* C3: every write() that returns (a path or None) leaves the glossary empty:
\* close() was called on every reader that was attached, _readers and _data
\* are empty and _iter is unset.
C3_WriteLeavesEmpty ==
    [][ (last'.op = "write" /\ last'.result \in {"path", "None"})
           => /\ data' = <<>>
              /\ readers' = <<>>
              /\ it' = NoIter
              /\ \A i \in DOMAIN readers :
                    \E j \in DOMAIN last'.ev : last'.ev[j] = <<"close", readers[i]>>
      ]_vars

\* C4: write() never raises: it returns the output path or None.
C4_WriteNeverRaises ==
    last.op = "write" => last.result \in {"path", "None"}

\* C5: convert() calls read() and then write(); when read() fails, write()
\* is not called; when the plugin's write function raises, convert() returns
\* None, archiveOutDir() is not called, every reader attached at that moment
\* is closed afterwards and _readers and _data are empty.
C5_ConvertSequence ==
    last.op = "convert" =>
        LET ev == last.ev
        IN  /\ \A i, j \in DOMAIN ev :
                  (ev[i][1] = "write" /\ ev[j][1] = "read") => j < i
            /\ HasEv(ev, "write") => HasEv(ev, "readOk")
            /\ HasEv(ev, "readFailed") =>
                  ~HasEv(ev, "write") /\ ~HasEv(ev, "writeFn")
            /\ HasEv(ev, "writeFnRaised") =>
                  /\ last.result = "None"
                  /\ ~HasEv(ev, "archive")
                  /\ data = <<>>
                  /\ readers = <<>>
                  /\ \A i \in DOMAIN last.snap.readers :
                        \E j, c \in DOMAIN ev :
                            /\ ev[j][1] = "writeFn"
                            /\ j < c
                            /\ ev[c] = <<"close", last.snap.readers[i]>>

\* convert() met a write function that raised while a reader was attached
C5_Witness ==
    /\ last.op = "convert"
    /\ HasEv(last.ev, "writeFnRaised")
    /\ last.snap.readers # <<>>

\* The contents of the readers rs, one stream for each
Streams(S, rs) == [i \in DOMAIN rs |-> S.rd[rs[i]].items]

\* C6: iterating a glossary after a stream sort of its untouched readers
\* yields entries in nondecreasing order of the sort key of the yielded words,
\* a permutation of the N input entries, and the same sequence for a cache
\* size of 1, of N and of more than N.
C6_StreamSortSorted ==
    [][ (/\ it.kind = "sorted" /\ ~it.started /\ it.live
         /\ readers # <<>>
         /\ \A i \in DOMAIN readers :
               /\ rd[readers[i]].pos = 0
               /\ ~rd[readers[i]].closed
               /\ \A j \in DOMAIN rd[readers[i]].items :
                     Truthy(rd[readers[i]].items[j])
         /\ last'.op = "iterAll")
           => LET out == last'.written
                  inputs == RemainingAll(Cur, readers)
                  N == Len(inputs)
              IN  /\ IsSortedBy(out, it.key)
                  /\ IsPermutation(out, inputs)
                  /\ \A c \in {1, N, N + 1} :
                        out = FilterSeq(entryFilters,
                                 HSortStreamList(Streams(Cur, readers), c, it.key))
      ]_vars

\* The write() of the last step called the plugin after draining a reader
DrainedBeforeWrite ==
    /\ last.op = "write"
    /\ last.snap.called
    /\ \E j, c \in DOMAIN last.ev :
          /\ last.ev[c][1] = "close"
          /\ c < j
          /\ last.ev[j][1] = "writeFn"

\* C7: a write() from Direct mode to a format whose policy is ALWAYS, the
\* caller's sort left unspecified, hands the plugin entries in nondecreasing
\* order of the sort key of their words.
C7_AlwaysWriteSorted ==
    (/\ DrainedBeforeWrite
     /\ Plugin(last.format).sortOnWrite = "ALWAYS"
     /\ last.sort = "None")
        => IsSortedBy(last.written, Plugin(last.format).sortKey)

\* C8: the sort of write() is on for ALWAYS and off for NEVER whatever the
\* caller asks; for DEFAULT_YES it is on unless the caller passes False; for
\* DEFAULT_NO it is on only if the caller passes True.
C8_SortDecision ==
    (last.op = "write" /\ last.snap.called) =>
        LET policy == Plugin(last.format).sortOnWrite
            on == HasEv(last.ev, "sortWords")
            off == HasEv(last.ev, "updateIter")
        IN  /\ on # off
            /\ policy = "ALWAYS" => on
            /\ policy = "NEVER" => off
            /\ policy = "DEFAULT_YES" => (on <=> last.sort \in {"None", "True"})
            /\ policy = "DEFAULT_NO" => (on <=> last.sort = "True")

\* write() with sort=True to a format whose policy is NEVER did not sort
C8_Witness ==
    /\ last.op = "write"
    /\ last.snap.called
    /\ Plugin(last.format).sortOnWrite = "NEVER"
    /\ last.sort = "True"
    /\ HasEv(last.ev, "updateIter")
    /\ ~HasEv(last.ev, "sortWords")

\* C9: when write() to a format whose policy is ALWAYS finds readers
\* attached, the plugin's write function runs on a glossary in Indirect
\* mode: every reader was drained into _data after the entries already
\* there, in attachment order, then closed and detached, and _data is sorted.
C9_AlwaysDrains ==
    [][ (/\ readers # <<>>
         /\ last'.op = "write"
         /\ last'.snap.called
         /\ Plugin(last'.format).sortOnWrite = "ALWAYS")
           => LET k == Plugin(last'.format).sortKey
                  ev == last'.ev
                  snap == last'.snap
              IN  /\ snap.readers = <<>>
                  /\ snap.iter = "loaded"
                  /\ snap.data
                        = SortByKey(data \o TruthyOnly(RemainingAll(Cur, readers)), k)
                  /\ IsSortedBy(snap.data, k)
                  /\ \A i \in DOMAIN readers :
                        \E j, c \in DOMAIN ev :
                            /\ ev[c] = <<"close", readers[i]>>
                            /\ c < j
                            /\ ev[j][1] = "writeFn"
                  /\ \A i, q \in DOMAIN readers : \A j, c \in DOMAIN ev :
                        (/\ i < q
                         /\ ev[j] = <<"next", readers[i]>>
                         /\ ev[c] = <<"next", readers[q]>>) => j < c
      ]_vars

\* write() to a format whose policy is ALWAYS drained a reader and handed
\* the plugin at least two entries
C9_Witness ==
    /\ DrainedBeforeWrite
    /\ Plugin(last.format).sortOnWrite = "ALWAYS"
    /\ Len(last.snap.data) >= 2
    /\ last.snap.readers = <<>>

\* C10: unsorted iteration in Direct mode yields the entries of the readers
\* in attachment order, and close() is called on a reader before the first
\* entry is pulled from the next one.
C10_DirectOrder ==
    [][ (/\ it.kind = "readers" /\ ~it.done
         /\ last'.op \in {"next", "iterAll"})
           => LET lst == IF it.started THEN IterList(Cur) ELSE readers
                  from == IF it.started THEN it.ri ELSE 1
                  ev == last'.ev
                  coming == FilterSeq(entryFilters,
                               RemainingAll(Cur, SubSeq(lst, from, Len(lst))))
              IN  /\ \A j \in DOMAIN ev :
                        ev[j][1] = "next" =>
                            \E i \in DOMAIN lst :
                                /\ lst[i] = ev[j][2]
                                /\ \A q \in 1..(i - 1) :
                                      \/ rd[lst[q]].closed
                                      \/ EvBefore(ev, "close", lst[q], j)
                  /\ last'.op = "iterAll" => last'.written = coming
                  /\ (last'.op = "next" /\ last'.result = "entry") =>
                        (coming # <<>> /\ last'.item = Head(coming))
                  /\ (last'.op = "next" /\ last'.result = "StopIteration") =>
                        coming = <<>>
      ]_vars

\* next() closed the first reader and then pulled an entry from the second
C10_Witness ==
    /\ last.op = "next"
    /\ last.result = "entry"
    /\ Len(readers) >= 2
    /\ \E j, c \in DOMAIN last.ev :
          /\ last.ev[c] = <<"close", readers[1]>>
          /\ c < j
          /\ last.ev[j] = <<"next", readers[2]>>

\* C11: close() is called on every attached reader on each exit path: a
\* reader whose stream an iteration pulled to its end is closed, the readers
\* pulled by an iteration that raised are closed, and after clear() or after a
\* write() that returned no reader that was attached is left un-closed.
C11_ReadersClosed ==
    [][ /\ last'.op \in {"next", "iterAll"} =>
              \A r \in DOMAIN rd :
                  /\ Cardinality({j \in DOMAIN last'.ev : last'.ev[j] = <<"next", r>>})
                        > rd'[r].pos - rd[r].pos
                        => rd'[r].closed
                  /\ (last'.result = "Error"
                      /\ \E j \in DOMAIN last'.ev : last'.ev[j] = <<"next", r>>)
                        => rd'[r].closed
        /\ (\/ last'.op = "clear"
            \/ last'.op = "write" /\ last'.result \in {"path", "None"}) =>
              \A i \in DOMAIN readers :
                  \/ rd[readers[i]].closed
                  \/ \E j \in DOMAIN last'.ev : last'.ev[j] = <<"close", readers[i]>>
      ]_vars

\* C12: iterating a glossary whose iterator is exhausted yields nothing and
\* pulls nothing; an iterator over _data delivers only the entries it has not
\* delivered yet; and after _updateIter() on a glossary without readers a
\* full iteration yields the whole filtered _data again.
C12_IterOnce ==
    [][ /\ (it.done /\ last'.op \in {"next", "iterAll"}) =>
              /\ last'.result = IF last'.op = "next" THEN "StopIteration" ELSE "None"
              /\ last'.item = None
              /\ last'.written = <<>>
              /\ last'.ev = <<>>
        /\ (it.kind = "loaded" /\ ~it.done /\ last'.op = "iterAll") =>
              last'.written
                 = FilterSeq(entryFilters, SubSeq(data, it.di + 1, Len(data)))
        /\ (last.op = "updateIter" /\ readers = <<>> /\ last'.op = "iterAll") =>
              last'.written = FilterSeq(entryFilters, data)
      ]_vars

\* A full iteration of a glossary with entries in _data yielded nothing and
\* pulled nothing: its iterator had been exhausted before
C12_Witness ==
    /\ last.op = "iterAll"
    /\ it.kind = "loaded"
    /\ it.done
    /\ data # <<>>
    /\ last.written = <<>>
    /\ last.ev = <<>>

\* The results of the filters of a chain on the entry x, stage after stage:
\* stage 0 is x, a stage after a falsy stage is not run (None)
Stages(chain, x) ==
    LET r[i \in 0..Len(chain)] ==
            IF i = 0 THEN x
            ELSE IF Truthy(r[i - 1]) THEN RunFilter(chain[i], r[i - 1]) ELSE None
    IN  r

\* Every filter of the chain returns a truthy result on x
Survives(chain, x) ==
    Truthy(x) /\ \A i \in 1..Len(chain) : Truthy(Stages(chain, x)[i])

\* The filters run on a truthy x: up to the first one with a falsy result
StagesRun(chain, x) ==
    IF Survives(chain, x) THEN Len(chain)
    ELSE CHOOSE i \in 1..Len(chain) :
            /\ ~Truthy(Stages(chain, x)[i])
            /\ \A q \in 1..(i - 1) : Truthy(Stages(chain, x)[q])

\* The j-th smallest element of a set of numbers
Kth(set, j) == CHOOSE i \in set : Cardinality({q \in set : q < i}) = j - 1

\* C13: the filter stage is a chain of responsibility: a falsy upstream item
\* is discarded before any filter runs; on a truthy one the filters run in
\* list order, each on the result of the one before, up to the first falsy
\* result, after which none runs; an entry is emitted exactly when every
\* filter returned a truthy result, as the result of the last filter, and the
\* emitted entries keep their upstream order.
C13_ChainOfResponsibility ==
    [][ (/\ it.kind \in {"loaded", "readers"} /\ ~it.started
         /\ last'.op = "iterAll")
           => LET up == IF it.kind = "loaded" THEN data
                        ELSE RemainingAll(Cur, readers)
                  c == entryFilters
                  out == last'.written
                  kept == {i \in DOMAIN up : Survives(c, up[i])}
                  truthy == {i \in DOMAIN up : Truthy(up[i])}
                  runs == SelectSeq(last'.ev, LAMBDA e : e[1] = "filters")
              IN  /\ Len(out) = Cardinality(kept)
                  /\ \A j \in DOMAIN out :
                        out[j] = Stages(c, up[Kth(kept, j)])[Len(c)]
                  /\ Len(runs) = Cardinality(truthy)
                  /\ \A j \in DOMAIN runs :
                        runs[j][2] = StagesRun(c, up[Kth(truthy, j)])
      ]_vars

\* A full iteration met an entry that the second filter discarded and one
\* that went through the whole chain
C13_Witness ==
    /\ last.op = "iterAll"
    /\ last.written # <<>>
    /\ \E j \in DOMAIN last.ev : last.ev[j] = <<"filters", 2>>
    /\ \E j \in DOMAIN last.ev : last.ev[j] = <<"filters", Len(entryFilters)>>
    /\ Len(entryFilters) > 2

\* The word of the entry e is empty once stripped
BlankWord(e) == StripWord(e[1]) = ""

\* C14: an entry whose word is only whitespace never comes out of the
\* iteration of a glossary: no emitted entry has a blank word, and a full
\* iteration emits at most as many entries as the upstream has entries with
\* a non-blank word, in both modes, sorted or not, for every setting of
\* skipResources, utf8Check and lower.
C14_BlankWordsDropped ==
    [][ last'.op \in {"next", "iterAll"}
           => /\ last'.result = "entry" => ~BlankWord(last'.item)
              /\ \A j \in DOMAIN last'.written : ~BlankWord(last'.written[j])
              /\ (last'.op = "iterAll" /\ it.kind # "None" /\ ~it.started) =>
                    LET up == IF it.kind = "loaded" THEN data
                              ELSE RemainingAll(Cur, readers)
                    IN  Len(last'.written)
                           <= Cardinality({i \in DOMAIN up :
                                 Truthy(up[i]) /\ ~BlankWord(up[i])})
      ]_vars

\* C15: the configuration of a session is rebuilt at the start of each read:
\* after a read() that succeeded the filter chain is the one built from the
\* preferences, and the sort key and the sort cache size are the initial
\* ones, whatever an earlier sortWords() set.
C15_ReadRebuildsConfig ==
    [][ (last'.op = "read" /\ last'.result = "True")
           => /\ entryFilters' = UpdateEntryFilters(pref)
              /\ sortKey' = "None"
              /\ sortCacheSize' = DefaultSortCacheSize
      ]_vars

\* C16: sortWords() with a cacheSize that is not positive raises nothing and
\* leaves the configured cache size as it was; with a positive cacheSize and
\* readers attached it replaces it; the stream sort that sortWords() sets up
\* uses the configured size.
C16_CacheSizeKept ==
    [][ last'.op = "sortWords"
           => /\ last'.result = "None"
              /\ last'.cacheSize <= 0 => sortCacheSize' = sortCacheSize
              /\ (last'.cacheSize > 0 /\ readers # <<>>) =>
                    sortCacheSize' = last'.cacheSize
              /\ readers # <<>> =>
                    (it'.kind = "sorted" /\ it'.cache = sortCacheSize')
      ]_vars

\* sortWords() with a cacheSize that is not positive kept a cache size an
\* earlier sortWords() had set, and set up a stream sort
C16_Witness ==
    /\ last.op = "sortWords"
    /\ last.cacheSize <= 0
    /\ sortCacheSize = 1
    /\ it.kind = "sorted"
    /\ it.cache = 1

\* C17: convert() with direct not given reads in direct mode unless sort is
\* True, and then in indirect mode; a direct that is given is passed to
\* read() as it is.  A direct read pulls nothing from the input; after an
\* indirect read no reader is attached when the plugin writes.
C17_ConvertChoosesMode ==
    last.op = "convert" =>
        LET ev == last.ev
            expected ==
                IF last.direct = "None"
                THEN (IF last.sort = "True" THEN 0 ELSE 1)
                ELSE (IF last.direct = "True" THEN 1 ELSE 0)
        IN  /\ \A j \in DOMAIN ev : ev[j][1] = "read" => ev[j][2] = expected
            /\ expected = 1 =>
                  \A j, q \in DOMAIN ev :
                      (ev[q][1] = "readOk" /\ j < q) => ev[j][1] \notin {"next", "close"}
            /\ (expected = 0 /\ last.snap.called) => last.snap.readers = <<>>

\* convert() with direct not given and sort=True read the input into _data
C17_Witness ==
    /\ last.op = "convert"
    /\ last.direct = "None"
    /\ last.sort = "True"
    /\ \E j, q \in DOMAIN last.ev :
          /\ last.ev[j][1] = "next"
          /\ j < q
          /\ last.ev[q][1] = "readOk"
    /\ last.snap.called
    /\ last.snap.data # <<>>

\* C18: convert() to an output file whose extension no registered format
\* lists, with no output format given, returns None and neither reads nor
\* writes: no reader is opened or attached, no entry is loaded, and neither
\* read() nor write() nor the plugin is called.
C18_UnknownOutputFails ==
    (/\ last.op = "convert"
     /\ last.format = ""
     /\ \A i \in DOMAIN Plugins : OutExt(last.filename) \notin Plugins[i].ext)
        => /\ last.result = "None"
           /\ last.ev = <<>>
           /\ ~last.snap.called
           /\ last.written = <<>>
           /\ rd = <<>>
           /\ readers = <<>>
           /\ data = <<>>
           /\ it = NoIter

\* convert() was called with an output file of unknown extension and no format
C18_Witness ==
    /\ last.op = "convert"
    /\ last.filename = "out.unknownext"
    /\ last.format = ""
    /\ last.result = "None"

\* The first place in the registry of a format that lists the extension
FirstListing(ext) ==
    CHOOSE i \in DOMAIN Plugins :
        /\ ext \in Plugins[i].ext
        /\ \A j \in DOMAIN Plugins : ext \in Plugins[j].ext => i <= j

\* C19: a format detected from a file name is the first format of the
\* registry, in registry order, that lists the extension left once an archive
\* suffix is taken off, also when several formats list it: for the input
\* file of read() and for the output file of convert().
C19_FirstMatchWins ==
    /\ (last.op = "read" /\ last.format = "") =>
          \A j \in DOMAIN last.ev :
              last.ev[j][1] = "format" =>
                  last.ev[j][2] = FirstListing(FileExt(last.filename))
    /\ (last.op = "convert" /\ last.format = "") =>
          \A j \in DOMAIN last.ev :
              last.ev[j][1] = "outputFormat" =>
                  last.ev[j][2] = FirstListing(OutExt(last.filename))

\* C20: an option whose key the format does not list is taken out before the
\* plugin is called and changes nothing else: read() gives the result and
\* leaves the glossary as the same call without options does, and write()
\* calls the plugin whenever the format has a write function; the plugin
\* receives exactly the options whose key the format lists, values unchanged.
C20_OptionsFiltered ==
    [][ /\ last'.op = "read" =>
              LET plain == Read(Cur, pref, last'.filename, last'.format,
                                last'.direct = "True", {}, FALSE)
              IN  /\ last'.result = plain.result
                  /\ data' = plain.S.data
                  /\ readers' = plain.S.readers
                  /\ last'.result = "True" =>
                        \E j \in DOMAIN last'.ev :
                            /\ last'.ev[j][1] = "format"
                            /\ last'.passed
                                  = {o \in last'.options :
                                        o[1] \in Plugins[last'.ev[j][2]].readOptions}
        /\ last'.op = "write" =>
              /\ last'.snap.called = HasWriteFunction(last'.format)
              /\ last'.snap.called =>
                    last'.snap.options
                       = {o \in last'.options :
                             o[1] \in Plugin(last'.format).writeOptions}
      ]_vars

\* read() was given a listed and an unlisted option and passed on the listed
\* one only
C20_Witness ==
    /\ last.op = "read"
    /\ last.result = "True"
    /\ <<"bogus", "1">> \in last.options
    /\ last.passed = {<<"encoding", "latin-1">>}

\* The keys of the alias table and the canonical keys it maps them to
AliasKeys ==
    {"title", "bookname", "dbname", "sourcelang", "inputlang", "origlang",
     "targetlang", "outputlang", "destlang", "license"}

CanonicalKeys == {"name", "sourceLang", "targetLang", "copyright"}

\* The canonical key of an alias or of a canonical key, "" for any other key
CanonicalOf(k) ==
    IF k \in CanonicalKeys THEN k
    ELSE IF k \in AliasKeys THEN InfoKeysAliasDict(k)
    ELSE ""

\* setInfo(a, v) followed by getInfo(b), a and b of one canonical key,
\* returns v
SetThenGet ==
    (/\ last.op = "setInfo" /\ last'.op = "getInfo"
     /\ CanonicalOf(last.key) # ""
     /\ CanonicalOf(last.key) = CanonicalOf(last'.key))
        => last'.result = last.value

\* setInfo on a key the mapping holds changes the value in place
SetKeepsPosition ==
    last'.op = "setInfo" =>
        LET i == InfoIndex(info, InfoKey(last'.key))
        IN  i # 0 =>
               /\ Len(info') = Len(info)
               /\ info'[i] = <<InfoKey(last'.key), last'.value>>
               /\ \A j \in DOMAIN info : j # i => info'[j] = info[j]

\* The mapping holds no key twice
InfoKeysUnique ==
    \A i, j \in DOMAIN info : info[i][1] = info[j][1] => i = j

\* C21 as stated: setInfo(a, v) then getInfo(b) returns v for a and b of one
\* canonical key; the mapping holds at most one entry per canonical key and
\* never a key whose lower-cased form is an alias; setInfo on an existing key
\* keeps its position.
C21_InfoAsStated ==
    /\ [](/\ InfoKeysUnique
          /\ \A i \in DOMAIN info : LowerKey(info[i][1]) \notin AliasKeys)
    /\ [][SetThenGet /\ SetKeepsPosition]_vars

\* C21 (amended): setInfo(a, v) then getInfo(b) returns v for a and b of one
\* canonical key; the mapping holds at most one entry per canonical key and
\* never a key that the alias table maps to another key; setInfo on an
\* existing key keeps its position.
C21_InfoNormalized ==
    /\ [](/\ InfoKeysUnique
          /\ \A i \in DOMAIN info : InfoKey(info[i][1]) = info[i][1])
    /\ [][SetThenGet /\ SetKeepsPosition]_vars

\* getInfo by an alias returned the value that setInfo stored under another
\* key of the same canonical key, the second entry of the mapping
C21_Witness ==
    /\ last.op = "getInfo"
    /\ last.key = "title"
    /\ last.result = "v2"
    /\ Len(info) >= 2
    /\ info[2] = <<"name", "v2">>

\* The buckets put end to end
RECURSIVE Concat(_)
Concat(ss) == IF ss = <<>> THEN <<>> ELSE Head(ss) \o Concat(Tail(ss))

\* C22: iterEntryBuckets(size) yields buckets of exactly size entries each,
\* for every length of the glossary, and the buckets put end to end are the
\* entries the iteration yields.
C22_BucketsFull ==
    (last.op = "iterEntryBuckets" /\ last.result = "None") =>
        /\ \A i \in DOMAIN last.buckets : Len(last.buckets[i]) = last.size
        /\ Concat(last.buckets) = last.written

\* C23: draining the readers is one-way: after _inactivateDirectMode has
\* detached the readers, the next operation on the glossary leaves the list
\* of attached readers empty.
C23_DrainIsOneWay ==
    [][ (/\ last.op = "inactivateDirectMode"
         /\ HasEv(last.ev, "close")
         /\ readers = <<>>)
           => readers' = <<>> ]_vars

\* The entries of s whose key is v, in the order of s
WithKey(s, k, v) == SelectSeq(s, LAMBDA e : EntrySortKey(k, e) = v)

\* C24: with no reader attached, sortWords(key) leaves _data in nondecreasing
\* order of the key of the raw words, the entries of equal key in the order
\* they had, a permutation of _data before the sort; the iteration that
\* follows yields the entries of _data in that order, each through the
\* filter chain.
C24_IndirectSortStable ==
    [][ /\ (last'.op = "sortWords" /\ readers = <<>>) =>
              /\ IsSortedBy(data', last'.key)
              /\ IsPermutation(data', data)
              /\ \A i \in DOMAIN data :
                    LET v == EntrySortKey(last'.key, data[i])
                    IN  WithKey(data', last'.key, v) = WithKey(data, last'.key, v)
              /\ it'.kind = "loaded" /\ ~it'.started
        /\ (last.op = "sortWords" /\ readers = <<>> /\ last'.op = "iterAll") =>
              last'.written = FilterSeq(entryFilters, data)
      ]_vars

\* sortWords moved the entry " b" before two entries of equal key, which
\* kept their order
C24_Witness ==
    /\ last.op = "sortWords"
    /\ readers = <<>>
    /\ data = <<E(" b", "1"), E("a", "3"), E("a", "2")>>

\* C25: a glossary with nothing loaded and no reader attached that reads a
\* file with direct=True yields, when iterated, the sequence it yields after
\* reading the file with direct=False: the same entries in the same order,
\* the same entries discarded by the filter chain.
C25_SamePipeline ==
    [][ (/\ last'.op = "read" /\ last'.result = "True"
         /\ data = <<>> /\ readers = <<>>)
           => LET other == Read(Cur, pref, last'.filename, last'.format,
                                last'.direct # "True", {}, FALSE)
                  here == IterAll([Cur EXCEPT !.data = data', !.readers = readers',
                                              !.rd = rd', !.it = it',
                                              !.entryFilters = entryFilters'],
                                  <<>>)
                  there == IterAll([other.S EXCEPT !.ev = <<>>], <<>>)
              IN  /\ other.result = "True"
                  /\ here.out = there.out
                  /\ here.err = there.err
      ]_vars

\* A file whose reader yields None and an entry was read with direct=True
\* into an empty glossary, and the reader is attached
C25_Witness ==
    /\ last.op = "read"
    /\ last.result = "True"
    /\ last.direct = "True"
    /\ last.filename = "b.txt"
    /\ readers = <<1>>
    /\ data = <<>>

\* The stages of the chain in their fixed order
ClaimedStages ==
    <<"Strip", "NonEmptyWord", "SkipData", "FixUnicode", "LowerWord", "Lang",
      "Clean", "NonEmptyWord", "NonEmptyDefi">>

\* The stages the preferences p switch on
StageOn(p, f) ==
    CASE f = "SkipData" -> p.skipResources
      [] f = "FixUnicode" -> p.utf8Check
      [] f = "LowerWord" -> p.lower
      [] OTHER -> TRUE

\* C26: every read that passes the mode check builds the chain from the
\* preferences of that moment, its stages in the fixed order strip,
\* drop-empty-word, [skip resources], [fix encoding], [lowercase], language,
\* clean, drop-empty-word, drop-empty-definition; a change of the preferences
\* leaves the chain as it is, and the iteration after it runs the chain of
\* the last read.
C26_ChainBuiltAtRead ==
    [][ /\ (last'.op = "read" /\ last'.result # "ValueError") =>
              entryFilters' = SelectSeq(ClaimedStages, LAMBDA f : StageOn(pref, f))
        /\ last'.op = "setPref" => entryFilters' = entryFilters
        /\ (/\ last.op = "setPref" /\ last'.op = "iterAll"
            /\ it.kind = "loaded" /\ ~it.started) =>
              last'.written = FilterSeq(entryFilters, data)
      ]_vars

\* A read built the chain with every optional stage after the preferences
\* were changed
C26_Witness ==
    /\ last.op = "read"
    /\ last.result = "True"
    /\ pref = [skipResources |-> TRUE, utf8Check |-> TRUE, lower |-> TRUE]
    /\ entryFilters = ClaimedStages

\* C27: no operation pulls an entry from a reader after close() was called
\* on that reader: a next() on a reader is made neither on a reader closed
\* by an earlier operation nor after a close() of the same operation.
C27_NoPullAfterClose ==
    [][ \A n \in DOMAIN last'.ev :
            last'.ev[n][1] = "next" =>
                LET r == last'.ev[n][2]
                IN  /\ ~(r \in DOMAIN rd /\ rd[r].closed)
                    /\ ~EvBefore(last'.ev, "close", r, n)
      ]_vars

\* C28: clear() calls close() on every attached reader, also after the
\* close() of an earlier reader raised, and leaves the glossary as a new one:
\* empty info, empty _data, no readers, no iterator, no sort key, sort cache
\* size 1000, default definition format "m"; iterating it yields nothing.
C28_ClearResets ==
    [][ last'.op = "clear" =>
          /\ \A i \in DOMAIN readers :
                \E j \in DOMAIN last'.ev : last'.ev[j] = <<"close", readers[i]>>
          /\ info' = <<>>
          /\ data' = <<>>
          /\ readers' = <<>>
          /\ it' = NoIter
          /\ entryFilters' = <<>>
          /\ sortKey' = "None"
          /\ sortCacheSize' = 1000
          /\ defaultDefiFormat' = "m"
          /\ IterAll([data |-> data', readers |-> readers', rd |-> rd', it |-> it',
                      entryFilters |-> entryFilters', sortKey |-> sortKey',
                      sortCacheSize |-> sortCacheSize', info |-> info',
                      defaultDefiFormat |-> defaultDefiFormat', ev |-> <<>>],
                     <<>>).out = <<>>
      ]_vars

\* clear() closed two readers, the close() of the first one raised
C28_Witness ==
    /\ last.op = "clear"
    /\ last.ev = <<<<"close", 1>>, <<"closeRaised", 1>>, <<"close", 2>>>>

\* C29: when the open() of a reader raises during read(), with direct=True
\* or direct=False, the exception reaches the caller and the reader list,
\* _data and the iterator are as they were before the call.
C29_OpenFailureLeavesState ==
    [][ /\ (/\ last'.op = "read"
            /\ last'.filename \in UnreadableFiles
            /\ last'.result # "ValueError") => last'.result = "IOError"
        /\ (last'.op = "read" /\ last'.result = "IOError") =>
              /\ readers' = readers
              /\ data' = data
              /\ it' = it
              /\ rd' = rd
      ]_vars

\* open() raised in a read(direct=True) of a glossary with a reader attached
\* and an iteration under way
C29_Witness ==
    /\ last.op = "read"
    /\ last.direct = "True"
    /\ last.result = "IOError"
    /\ readers = <<1>>
    /\ it.started

\* C30: read(direct=True) for a format with no Reader class attaches no
\* reader, the read function of the format puts the entries of the file in
\* _data, and iterating the glossary after the call yields the entries that
\* call loaded (those the filter chain passes).
C30_FallbackToIndirect ==
    [][ (/\ last'.op = "read" /\ last'.direct = "True" /\ last'.result = "True"
         /\ \E j \in DOMAIN last'.ev :
               /\ last'.ev[j][1] = "format"
               /\ ~Plugins[last'.ev[j][2]].Reader)
           => LET loaded == TruthyOnly(FileContent(last'.filename))
                  after == IterAll([data |-> data', readers |-> readers',
                                    rd |-> rd', it |-> it',
                                    entryFilters |-> entryFilters',
                                    sortKey |-> sortKey',
                                    sortCacheSize |-> sortCacheSize',
                                    info |-> info',
                                    defaultDefiFormat |-> defaultDefiFormat',
                                    ev |-> <<>>], <<>>)
              IN  /\ readers' = readers
                  /\ data' = data \o loaded
                  /\ \A e \in Range(FilterSeq(entryFilters', loaded)) :
                        e \in Range(after.out)
      ]_vars

=============================================================================
